---- MODULE Spec2Model ----
(***************************************************************************)
(* Model of the adaptive traffic-light engine (adaptive_tls.py,            *)
(* class AdaptiveTrafficLight) and of the loop that drives it              *)
(* (adaptive_control.py, SimulationController.run).                        *)
(*                                                                         *)
(* Real numbers.  The floats of the source are IEEE 754 double-precision   *)
(* numbers here as well: every priority, weight, consistency, duration and *)
(* remaining time is a float record, and every arithmetic operation of the *)
(* source is one correctly rounded operation of the model, taken in the    *)
(* order in which the source takes it.  Clock times and timestamps are     *)
(* whole seconds and are kept as integers until they enter a float         *)
(* operation.                                                              *)
(*                                                                         *)
(* The four helpers control_logic and update_vehicle_history call but the  *)
(* repository does not define (get_approach_direction, handle_emergency,   *)
(* get_current_direction, set_phase_for_direction) are modelled from the   *)
(* interface section of the specification.                                 *)
(***************************************************************************)
EXTENDS Integers, Sequences, FiniteSets, TLC

VARIABLES
    time,       \* traci.simulation.getTime(), whole seconds
    ticks,      \* iterations of the driving loop so far
    calls,      \* update_vehicle_history calls made so far
    scene,      \* what the data source reports: lanes, distances, classes, directions
    phase,      \* traci.trafficlight.getPhase(tls_id)
    remaining,  \* getNextSwitch(tls_id) - getTime(), a float
    vehicles,   \* self.vehicles: veh_id -> [crossings, patterns]
    pc,         \* position of SimulationController.run
    obs         \* what the last operation did (commands issued, values computed)

vars == <<time, ticks, calls, scene, phase, remaining, vehicles, pc, obs>>

----------------------------------------------------------------------------
(* Bounds of the model *)

MaxTicks == 1         \* iterations of the driving loop
MaxCalls == 2         \* calls of update_vehicle_history in a run
BeginTime == 4        \* latest simulation time at which a run starts (SUMO configuration)

(* Program constants *)

DetectionRange == 50
BatchSize == 5
Eps == 300
MinSamples == 3
MinDuration == 15
MaxDuration == 60
BaseDuration == 30
VizPeriod == 5
HourSeconds == 3600

Vehs == {"v1", "v2"}

Abs(x) == IF x < 0 THEN -x ELSE x
Max2(a, b) == IF a >= b THEN a ELSE b
Min2(a, b) == IF a <= b THEN a ELSE b
SetMax(S) == CHOOSE x \in S : \A y \in S : y <= x
SetMin(S) == CHOOSE x \in S : \A y \in S : x <= y

RECURSIVE Flatten(_)
Flatten(ss) == IF ss = <<>> THEN <<>> ELSE Head(ss) \o Flatten(Tail(ss))

----------------------------------------------------------------------------
(* Numbers of any size.  A natural number is a sequence of limbs of 14     *)
(* bits, least significant first, with no zero limb at the top; <<>> is    *)
(* zero.  TLC evaluates integers in 32 bits; these numbers have no such    *)
(* limit, and the product of two limbs stays within 32 bits.               *)

LimbBits == 14
Base == 2^LimbBits

(* s without the zero limbs at its top *)
Trim(s) ==
    IF s = <<>> \/ s[Len(s)] # 0 THEN s
    ELSE SubSeq(s, 1, CHOOSE n \in 0..Len(s) :
                          (n = 0 \/ s[n] # 0) /\ \A i \in (n + 1)..Len(s) : s[i] = 0)

Limb(a, i) == IF i <= Len(a) THEN a[i] ELSE 0

(* the number whose columns are s from column i on with c carried in:     *)
(* every column keeps its last limb and hands the rest to the column above *)
RECURSIVE CarryFrom(_, _, _)

CarryStep(s, i, t) == <<t % Base>> \o CarryFrom(s, i + 1, t \div Base)

CarryFrom(s, i, c) ==
    IF i > Len(s) THEN (IF c = 0 THEN <<>> ELSE CarryStep(s, i, c))
    ELSE CarryStep(s, i, s[i] + c)

(* the number whose columns are s, every column and carry below 2^31 *)
Carry(s) == Trim(CarryFrom(s, 1, 0))

(* an integer 0 .. 2^31 - 1 as a number *)
BigOf(n) == Trim(<<n % Base, (n \div Base) % Base, n \div (Base * Base)>>)

BigAdd(a, b) ==
    IF a = <<>> THEN b
    ELSE IF b = <<>> THEN a
    ELSE Carry([i \in 1..Max2(Len(a), Len(b)) |-> Limb(a, i) + Limb(b, i)])

(* a * k for an integer 0 <= k <= Base *)
BigMulInt(a, k) == IF a = <<>> \/ k = 0 THEN <<>> ELSE Carry([i \in 1..Len(a) |-> a[i] * k])

(* column k of the product a * b: the sum of a[i] * b[k + 1 - i], i = lo..hi *)
RECURSIVE ColSum(_, _, _, _, _)
ColSum(a, b, k, lo, hi) ==
    IF lo > hi THEN 0 ELSE a[lo] * b[k + 1 - lo] + ColSum(a, b, k, lo + 1, hi)

(* a * b, one of the two of at most 7 limbs: a column of the product and   *)
(* the carry into it stay below 7 * Base^2 + 7 * Base < 2^31               *)
BigMul(a, b) ==
    IF a = <<>> \/ b = <<>> THEN <<>>
    ELSE Carry([k \in 1..(Len(a) + Len(b) - 1) |->
                   ColSum(a, b, k, Max2(1, k + 1 - Len(b)), Min2(k, Len(a)))])

(* of two numbers of one length the smaller is smaller in the highest limb *)
(* where they differ                                                       *)
BigLess(a, b) ==
    IF Len(a) # Len(b) THEN Len(a) < Len(b)
    ELSE \E i \in DOMAIN a : a[i] < b[i] /\ \A k \in (i + 1)..Len(a) : a[k] = b[k]

(* a - b for a >= b, from column i on with w borrowed from it: a column    *)
(* that falls short borrows from the column above                          *)
RECURSIVE SubFrom(_, _, _, _)

SubStep(a, b, i, t) == <<t % Base>> \o SubFrom(a, b, i + 1, IF t < Base THEN 1 ELSE 0)

SubFrom(a, b, i, w) ==
    IF i > Len(a) THEN <<>> ELSE SubStep(a, b, i, a[i] + Base - Limb(b, i) - w)

BigSub(a, b) == IF b = <<>> THEN a ELSE Trim(SubFrom(a, b, 1, 0))

(* a * Base^n, and the floor of a / Base^n *)
Shift(a, n) == IF a = <<>> THEN <<>> ELSE [i \in 1..n |-> 0] \o a
Drop(a, n) == IF Len(a) <= n THEN <<>> ELSE SubSeq(a, n + 1, Len(a))

(* a * 2^n: every limb hands its top bits to the limb above *)
ShiftLeft(a, n) ==
    LET r == n % LimbBits
    IN  Shift(Trim([i \in 1..(Len(a) + 1) |->
                       ((Limb(a, i) * 2^r) % Base)
                           + (IF i > 1 THEN a[i - 1] \div 2^(LimbBits - r) ELSE 0)]),
              n \div LimbBits)

(* the floor of a / 2^n: every limb takes the low bits of the limb above *)
ShiftRight(a, n) ==
    LET r == n % LimbBits
        d == Drop(a, n \div LimbBits)
    IN  Trim([i \in 1..Len(d) |->
                 (d[i] \div 2^r) + (Limb(d, i + 1) % 2^r) * 2^(LimbBits - r)])

(* the number of bits of a limb 1 <= x < 2^14, and of a number a; bit n of *)
(* a, counted from 0; whether the bits of a below bit n are all 0          *)
Width(x) ==
    IF x < 128
    THEN IF x < 8 THEN (IF x < 2 THEN 1 ELSE IF x < 4 THEN 2 ELSE 3)
         ELSE IF x < 32 THEN (IF x < 16 THEN 4 ELSE 5)
         ELSE IF x < 64 THEN 6 ELSE 7
    ELSE IF x < 2048
         THEN IF x < 512 THEN (IF x < 256 THEN 8 ELSE 9)
              ELSE IF x < 1024 THEN 10 ELSE 11
         ELSE IF x < 8192 THEN (IF x < 4096 THEN 12 ELSE 13) ELSE 14

BitLen(a) == IF a = <<>> THEN 0 ELSE LimbBits * (Len(a) - 1) + Width(a[Len(a)])

BitAt(a, n) == (Limb(a, n \div LimbBits + 1) \div 2^(n % LimbBits)) % 2

ZeroBelow(a, n) ==
    /\ \A i \in 1..Min2(n \div LimbBits, Len(a)) : a[i] = 0
    /\ Limb(a, n \div LimbBits + 1) % 2^(n % LimbBits) = 0

(* the limbs of a above the first k, at most two, as an integer *)
TopVal(a, k) == Limb(a, k + 1) + Base * Limb(a, k + 2)

(* the quotient and the remainder of a by b, b not zero: long division, a  *)
(* limb of the quotient at a time, highest first.  The remainder r so far  *)
(* and limb i of a make x < b * Base; the limb d of the quotient is the    *)
(* largest with b * d <= x, looked for downwards from the quotient of the  *)
(* leading limbs of x by the leading limb of b, which is never too small;  *)
(* x - b * d is the remainder carried down                                 *)
RECURSIVE DivBig(_, _, _, _)
RECURSIVE DivTry(_, _, _, _, _, _)

DivPut(d, qr) == [quo |-> qr.quo \o <<d>>, rem |-> qr.rem]

DivTry(a, b, i, x, d, p) ==
    IF BigLess(x, p) THEN DivTry(a, b, i, x, d - 1, BigMulInt(b, d - 1))
    ELSE DivPut(d, DivBig(a, b, i - 1, BigSub(x, p)))

DivGuess(a, b, i, x, d) == DivTry(a, b, i, x, d, BigMulInt(b, d))

DivLimb(a, b, i, x) ==
    DivGuess(a, b, i, x, Min2(Base - 1, TopVal(x, Len(b) - 1) \div b[Len(b)]))

DivBig(a, b, i, r) ==
    IF i = 0 THEN [quo |-> <<>>, rem |-> r] ELSE DivLimb(a, b, i, Trim(<<a[i]>> \o r))

(* the leading limbs of a, as many as b has when they are below b and one  *)
(* fewer otherwise, start the remainder                                    *)
DivLong(a, b) ==
    IF BigLess(Drop(a, Len(a) - Len(b)), b)
    THEN DivBig(a, b, Len(a) - Len(b), Drop(a, Len(a) - Len(b)))
    ELSE DivBig(a, b, Len(a) - Len(b) + 1, Drop(a, Len(a) - Len(b) + 1))

(* a and b are first scaled by the power of 2 that fills the leading limb  *)
(* of b, which brings the first guess of a limb within 2 of the limb       *)
Unscaled(qr, s) == [quo |-> Trim(qr.quo), rem |-> ShiftRight(qr.rem, s)]

DivMod(a, b) ==
    IF BigLess(a, b) THEN [quo |-> <<>>, rem |-> a]
    ELSE Unscaled(DivLong(ShiftLeft(a, LimbBits - Width(b[Len(b)])),
                          ShiftLeft(b, LimbBits - Width(b[Len(b)]))),
                  LimbBits - Width(b[Len(b)]))

(* the floor of a / b *)
BigDiv(a, b) == DivMod(a, b).quo

(* the floor of the square root of an integer below 2^28 *)
RECURSIVE IsqrtIn(_, _, _)
IsqrtIn(x, lo, hi) ==
    IF lo >= hi THEN lo
    ELSE LET mid == (lo + hi + 1) \div 2
         IN  IF mid * mid <= x THEN IsqrtIn(x, mid, hi) ELSE IsqrtIn(x, lo, mid - 1)

Isqrt(x) == IsqrtIn(x, 0, Base)

(* the floor of the square root of a: Newton's iteration from above,       *)
(* started at the root of the leading limbs rounded up                     *)
RECURSIVE SqrtFrom(_, _)

SqrtStep(a, x, q) ==
    IF BigLess(q, x) THEN SqrtFrom(a, ShiftRight(BigAdd(x, q), 1)) ELSE x

SqrtFrom(a, x) == SqrtStep(a, x, BigDiv(a, x))

BigSqrt(a) ==
    IF a = <<>> THEN <<>>
    ELSE LET n == Len(a)
             k == IF n % 2 = 0 THEN n - 2 ELSE n - 1
         IN  SqrtFrom(a, Shift(BigOf(Isqrt(TopVal(a, k)) + 1), k \div 2))

----------------------------------------------------------------------------
(* Floats.  A Python float and a numpy float64 are IEEE 754 binary64       *)
(* numbers.  Here such a number is a record [neg, man, exp] that stands    *)
(* for (-1)^neg * man * 2^exp, where man is zero or has exactly 53 bits;   *)
(* zero is FZero, so two records are equal exactly when the two floats     *)
(* are.  Every operation returns the exact result rounded to the nearest   *)
(* such number, to the one with an even mantissa on a tie, as the hardware *)
(* does.  Infinities, subnormal numbers and the sign of zero do not occur  *)
(* in the engine's range of values and are not represented.                *)

Precision == 53

FZero == [neg |-> FALSE, man |-> <<>>, exp |-> 0]

(* what an operation without a result leaves: x / 0 raises                 *)
(* ZeroDivisionError.  control_logic divides under total_weight > 0 only.  *)
NaN == [neg |-> FALSE, man |-> <<>>, exp |-> 1]

(* m * 2^e for a mantissa m of 53 bits, or 2^53 after a round-up *)
Normal(neg, m, e) ==
    IF BitLen(m) > Precision
    THEN [neg |-> neg, man |-> ShiftRight(m, 1), exp |-> e + 1]
    ELSE [neg |-> neg, man |-> m, exp |-> e]

(* n * 2^e for n of s bits more than 53: the bits dropped round up when    *)
(* they are more than half of the last bit kept, or half of it and that    *)
(* bit is odd                                                              *)
RoundBits(neg, n, e, sticky, s) ==
    IF s <= 0 THEN [neg |-> neg, man |-> ShiftLeft(n, -s), exp |-> e + s]
    ELSE Normal(neg,
                IF /\ BitAt(n, s - 1) = 1
                   /\ (sticky \/ ~ZeroBelow(n, s - 1) \/ BitAt(n, s) = 1)
                THEN BigAdd(ShiftRight(n, s), <<1>>)
                ELSE ShiftRight(n, s),
                e + s)

(* n * 2^e, and a little more when sticky, rounded to 53 bits; with sticky *)
(* n has at least 55 bits                                                  *)
Round(neg, n, e, sticky) ==
    IF n = <<>> THEN FZero ELSE RoundBits(neg, n, e, sticky, BitLen(n) - Precision)

(* float(n) for an integer n *)
FromInt(n) == Round(n < 0, BigOf(Abs(n)), 0, FALSE)

(* (n / d) * 2^e rounded, for numbers n and d # 0: the quotient is taken   *)
(* to 55 bits or more and the remainder is the sticky bit                  *)
Quotient(neg, e, qr) == Round(neg, qr.quo, e, qr.rem # <<>>)

Ratio(neg, n, d, e) ==
    IF n = <<>> THEN FZero
    ELSE Quotient(neg, e - Max2(0, Precision + 2 + BitLen(d) - BitLen(n)),
                  DivMod(ShiftLeft(n, Max2(0, Precision + 2 + BitLen(d) - BitLen(n))), d))

FNeg(x) == IF x.man = <<>> THEN x ELSE [x EXCEPT !.neg = ~x.neg]

(* a * 2^e and b * 2^e added with their signs: the sum of the two, or the  *)
(* larger less the smaller with the sign of the larger                     *)
Aligned(xneg, a, yneg, b, e) ==
    Round(IF xneg = yneg \/ ~BigLess(a, b) THEN xneg ELSE yneg,
          IF xneg = yneg THEN BigAdd(a, b)
          ELSE IF BigLess(a, b) THEN BigSub(b, a) ELSE BigSub(a, b),
          e, FALSE)

(* x + y: the two mantissas brought to the smaller exponent; a term more   *)
(* than 60 binary places below the other does not change it                *)
FAdd(x, y) ==
    IF x = NaN \/ y = NaN THEN NaN
    ELSE IF x.man = <<>> THEN y
    ELSE IF y.man = <<>> THEN x
    ELSE IF x.exp - y.exp > 60 THEN x
    ELSE IF y.exp - x.exp > 60 THEN y
    ELSE Aligned(x.neg, ShiftLeft(x.man, x.exp - Min2(x.exp, y.exp)),
                 y.neg, ShiftLeft(y.man, y.exp - Min2(x.exp, y.exp)), Min2(x.exp, y.exp))

FSub(x, y) == FAdd(x, FNeg(y))

FMul(x, y) ==
    IF x = NaN \/ y = NaN THEN NaN
    ELSE IF x.man = <<>> \/ y.man = <<>> THEN FZero
    ELSE Round(x.neg # y.neg, BigMul(x.man, y.man), x.exp + y.exp, FALSE)

FDiv(x, y) ==
    IF x = NaN \/ y.man = <<>> THEN NaN
    ELSE Ratio(x.neg # y.neg, x.man, y.man, x.exp - y.exp)

(* the root r of n, times 2^e; inexact when r * r is not n *)
Root(n, e, r) == Round(FALSE, r, e, BigMul(r, r) # n)

(* np.sqrt(x) for x >= 0: the root of the mantissa brought to an even      *)
(* exponent and to 111 bits or more                                        *)
FSqrt(x) ==
    IF x = NaN \/ x.neg THEN NaN
    ELSE IF x.man = <<>> THEN FZero
    ELSE Root(ShiftLeft(x.man, Precision + 5 + (x.exp % 2)),
              (x.exp - (x.exp % 2) - (Precision + 5)) \div 2,
              BigSqrt(ShiftLeft(x.man, Precision + 5 + (x.exp % 2))))

(* |x| < |y| *)
Smaller(x, y) ==
    IF y.man = <<>> THEN FALSE
    ELSE IF x.man = <<>> THEN TRUE
    ELSE IF x.exp # y.exp THEN x.exp < y.exp
    ELSE BigLess(x.man, y.man)

(* x < y *)
FLess(x, y) ==
    IF x = NaN \/ y = NaN THEN FALSE
    ELSE IF x.neg THEN (IF y.neg THEN Smaller(y, x) ELSE TRUE)
    ELSE IF y.neg THEN FALSE
    ELSE Smaller(x, y)

(* max(x, y) and min(x, y) of Python: the first argument unless the second *)
(* is strictly beyond it                                                   *)
FMax(x, y) == IF FLess(x, y) THEN y ELSE x
FMin(x, y) == IF FLess(y, x) THEN y ELSE x

FSetMax(S) == CHOOSE x \in S : \A y \in S : ~FLess(x, y)

(* s[1] + s[2] + ... + s[n] added to acc from the left *)
RECURSIVE SumLeft(_, _, _)
SumLeft(acc, s, i) ==
    IF i > Len(s) THEN acc ELSE SumLeft(FAdd(acc, s[i]), s, i + 1)

(* The float literals of the source, as records: the mantissa of the       *)
(* float in limbs and its exponent, as float.hex() gives them               *)

(* 1: 0x1.0000000000000p+0 *)
One == [neg |-> FALSE, man |-> <<0, 0, 0, 1024>>, exp |-> -52]

(* weights['frequency'] = 0.4: 0x1.999999999999ap-2 *)
FrequencyWeight == [neg |-> FALSE, man |-> <<6554, 9830, 6553, 1638>>, exp |-> -54]

(* weights['recency'] = 0.3: 0x1.3333333333333p-2 *)
RecencyWeight == [neg |-> FALSE, man |-> <<13107, 3276, 13107, 1228>>, exp |-> -54]

(* weights['consistency'] = 0.3: 0x1.3333333333333p-2 *)
ConsistencyWeight == [neg |-> FALSE, man |-> <<13107, 3276, 13107, 1228>>, exp |-> -54]

(* density_weight = 0.3: 0x1.3333333333333p-2 *)
DensityWeight == [neg |-> FALSE, man |-> <<13107, 3276, 13107, 1228>>, exp |-> -54]

(* time_boost_factor = 0.5: 0x1.0000000000000p-1 *)
TimeBoostFactor == [neg |-> FALSE, man |-> <<0, 0, 0, 1024>>, exp |-> -53]

(* 1e-6: 0x1.0c6f7a0b5ed8dp-20 *)
StdFloor == [neg |-> FALSE, man |-> <<11661, 727, 12154, 1073>>, exp |-> -72]

(* consistency = 0.5: 0x1.0000000000000p-1 *)
NeutralConsistency == [neg |-> FALSE, man |-> <<0, 0, 0, 1024>>, exp |-> -53]

(* 0.5 + normalized_weight: 0x1.0000000000000p-1 *)
HalfShare == [neg |-> FALSE, man |-> <<0, 0, 0, 1024>>, exp |-> -53]

----------------------------------------------------------------------------
(* The data source.  A scene is what traci reports during one tick. *)

Scene(lanes, dist, type, dir) ==
    [lanes |-> lanes, dist |-> dist, type |-> type, dir |-> dir]

Both(a, b) == [v \in Vehs |-> IF v = "v1" THEN a ELSE b]

Scenes ==
    { Scene(<< <<>>, <<>> >>,           Both(10, 10), Both("car", "car"), Both("NS", "EW")),
      Scene(<< <<"v1">>, <<>> >>,       Both(50, 10), Both("car", "car"), Both("NS", "EW")),
      Scene(<< <<>>, <<"v2">> >>,       Both(10, 49), Both("car", "car"), Both("NS", "EW")),
      Scene(<< <<"v1">>, <<"v2">> >>,   Both(10, 49), Both("car", "car"), Both("NS", "EW")),
      Scene(<< <<"v1", "v2">>, <<>> >>, Both(50, 10), Both("emergency", "car"), Both("NS", "NS")),
      Scene(<< <<"v1">>, <<"v2">> >>,   Both(10, 10), Both("emergency", "car"), Both("NS", "EW")),
      Scene(<< <<"v1">>, <<"v2">> >>,   Both(10, 10), Both("car", "emergency"), Both("EW", "NS")),
      Scene(<< <<"v2">>, <<"v1">> >>,   Both(10, 10), Both("emergency", "emergency"), Both("NS", "EW")),
      Scene(<< <<>>, <<"v1", "v2">> >>, Both(10, 10), Both("emergency", "emergency"), Both("EW", "EW")) }

(* (phase index, seconds until the next switch) pairs the signal can be in *)
Signals ==
    { <<0, 10>>, <<0, 20>>, <<0, 50>>, <<2, 10>>, <<2, 20>>, <<1, 3>> }

(* the vehicles the simulation knows in this scene *)
present(sc) == {Flatten(sc.lanes)[i] : i \in DOMAIN Flatten(sc.lanes)}

(* detect_vehicles: lanes in order, vehicles of each lane in order, nearer than 50 *)
detect_vehicles(sc) ==
    LET all == Flatten(sc.lanes)
        Test(v) == sc.dist[v] < DetectionRange
    IN  SelectSeq(all, Test)

(* approachDirection(vehicleId) of the data source *)
get_approach_direction(sc, v) == sc.dir[v]

(* which direction a phase index serves; yellow phases serve none *)
get_current_direction(p) ==
    IF p = 0 THEN "NS" ELSE IF p = 2 THEN "EW" ELSE "none"

----------------------------------------------------------------------------
(* Pattern detection: DBSCAN(eps=300, min_samples=3) over the timestamps *)

Times(cr) == [i \in DOMAIN cr |-> cr[i][1]]

(* mutant of Nbrs: two points exactly eps apart are not neighbours *)
NbrsStrict(ts, i) == {j \in DOMAIN ts : Abs(ts[i] - ts[j]) < Eps}

Nbrs(ts, i) == {j \in DOMAIN ts : Abs(ts[i] - ts[j]) <= Eps}

(* mutant of IsCore: two points already make a dense neighbourhood *)
IsCorePair(ts, i) == Cardinality(Nbrs(ts, i)) >= MinSamples - 1

IsCore(ts, i) == Cardinality(Nbrs(ts, i)) >= MinSamples

(* the core points that the core points S reach, one neighbouring core    *)
(* point after another; link[i] is the core points near core point i       *)
RECURSIVE Reach(_, _)
Reach(link, S) ==
    LET S2 == S \cup UNION {link[i] : i \in S}
    IN  IF S2 = S THEN S ELSE Reach(link, S2)

(* labels as sklearn assigns them: a cluster is the core points that reach *)
(* one another, clusters are numbered by their first core point, and a     *)
(* border point is taken by the first cluster that has a core point near it *)
Labels(ts) ==
    LET cores  == {i \in DOMAIN ts : IsCore(ts, i)}
        link   == [i \in cores |-> cores \cap Nbrs(ts, i)]
        first  == [i \in cores |-> SetMin(Reach(link, {i}))]
        starts == {first[i] : i \in cores}
        num    == [i \in cores |-> Cardinality({s \in starts : s < first[i]})]
        near(j) == {num[c] : c \in cores \cap Nbrs(ts, j)}
    IN  [j \in DOMAIN ts |->
            IF j \in cores THEN num[j]
            ELSE IF near(j) = {} THEN -1 ELSE SetMin(near(j))]

(* times[dbscan.labels_ == k]: the values of ts at the indices S, in the   *)
(* order of the indices                                                    *)
Pick(ts, S) ==
    [i \in 1..Cardinality(S) |->
        ts[CHOOSE j \in S : Cardinality({k \in S : k < j}) = i - 1]]

(* the sum numpy takes over a contiguous array of at most 128 floats:      *)
(* fewer than 8 are added from the left; otherwise 8 running sums take     *)
(* every eighth element each, are added in pairs, and the elements after   *)
(* the last full block of 8 are added from the left                        *)
PairwiseSum(s) ==
    LET n == Len(s)
        m == n - (n % 8)
        r == [j \in 1..8 |-> SumLeft(FZero, [i \in 1..(m \div 8) |-> s[j + 8 * (i - 1)]], 1)]
    IN  IF n < 8 THEN SumLeft(FZero, s, 1)
        ELSE SumLeft(FAdd(FAdd(FAdd(r[1], r[2]), FAdd(r[3], r[4])),
                          FAdd(FAdd(r[5], r[6]), FAdd(r[7], r[8]))),
                     SubSeq(s, m + 1, n), 1)

(* np.std(cluster): the mean, the deviations from it, their squares, the   *)
(* mean of the squares and its root, each step rounded                     *)
Square(x) == FMul(x, x)

Std(xs) ==
    LET n       == FromInt(Len(xs))
        arrmean == FDiv(PairwiseSum([i \in DOMAIN xs |-> FromInt(xs[i])]), n)
        x       == [i \in DOMAIN xs |-> Square(FSub(FromInt(xs[i]), arrmean))]
    IN  FSqrt(FDiv(PairwiseSum(x), n))

(* 1 / (np.std(cluster) + 1e-6) *)
Consistency(xs) == FDiv(One, FAdd(Std(xs), StdFloor))

detect_patterns(cr) ==
    LET ts  == Times(cr)
        lab == Labels(ts)
        ks  == {lab[j] : j \in DOMAIN ts} \ {-1}
        Mem(k) == {j \in DOMAIN ts : lab[j] = k}
    IN  [k \in 1..Cardinality(ks) |->
            [peak_start  |-> SetMin({ts[j] : j \in Mem(k - 1)}),
             peak_end    |-> SetMax({ts[j] : j \in Mem(k - 1)}),
             consistency |-> Consistency(Pick(ts, Mem(k - 1)))]]

----------------------------------------------------------------------------
(* The history store *)

None == [computed |-> FALSE, list |-> <<>>]
Truthy(p) == p.computed /\ p.list # <<>>

(* mutant of ShouldDetect: the count is tested before the append *)
ShouldDetectBefore(n) == (n - 1) % BatchSize = 0

ShouldDetect(n) == n % BatchSize = 0

(* mutant of Recorded: a second call in the same tick records nothing *)
RecordedOncePerTick(vs, v, t, d) ==
    LET old == IF v \in DOMAIN vs THEN vs[v] ELSE [crossings |-> <<>>, patterns |-> None]
        n   == Len(old.crossings)
        cr  == IF n > 0 /\ old.crossings[n][1] = t
               THEN old.crossings ELSE Append(old.crossings, <<t, d>>)
    IN  [crossings |-> cr,
         patterns  |-> IF ShouldDetect(Len(cr))
                       THEN [computed |-> TRUE, list |-> detect_patterns(cr)]
                       ELSE old.patterns]

(* the record of v after update_vehicle_history(v) at time t, direction d *)
Recorded(vs, v, t, d) ==
    LET old == IF v \in DOMAIN vs THEN vs[v] ELSE [crossings |-> <<>>, patterns |-> None]
        cr  == Append(old.crossings, <<t, d>>)
    IN  [crossings |-> cr,
         patterns  |-> IF ShouldDetect(Len(cr))
                       THEN [computed |-> TRUE, list |-> detect_patterns(cr)]
                       ELSE old.patterns]

update_vehicle_history(vs, v, t, d) ==
    [w \in DOMAIN vs \cup {v} |-> IF w = v THEN Recorded(vs, v, t, d) ELSE vs[w]]

----------------------------------------------------------------------------
(* The priority scorer *)

(* np.log1p(n), n = 1 .. 16 *)
Log1p ==
    << [neg |-> FALSE, man |-> <<14831, 15336, 9263, 1419>>, exp |-> -53] ,
       [neg |-> FALSE, man |-> <<778, 10932, 16039, 1124>>, exp |-> -52] ,
       [neg |-> FALSE, man |-> <<14831, 15336, 9263, 1419>>, exp |-> -52] ,
       [neg |-> FALSE, man |-> <<3379, 8118, 1055, 1648>>, exp |-> -52] ,
       [neg |-> FALSE, man |-> <<8194, 10408, 12479, 1834>>, exp |-> -52] ,
       [neg |-> FALSE, man |-> <<6743, 14537, 10026, 1992>>, exp |-> -52] ,
       [neg |-> FALSE, man |-> <<11123, 15598, 11043, 1064>>, exp |-> -51] ,
       [neg |-> FALSE, man |-> <<779, 10932, 16039, 1124>>, exp |-> -51] ,
       [neg |-> FALSE, man |-> <<5398, 11989, 15131, 1178>>, exp |-> -51] ,
       [neg |-> FALSE, man |-> <<14156, 7676, 11835, 1227>>, exp |-> -51] ,
       [neg |-> FALSE, man |-> <<7805, 13134, 4459, 1272>>, exp |-> -51] ,
       [neg |-> FALSE, man |-> <<3153, 11462, 4162, 1313>>, exp |-> -51] ,
       [neg |-> FALSE, man |-> <<15272, 7006, 3233, 1351>>, exp |-> -51] ,
       [neg |-> FALSE, man |-> <<2079, 9525, 8547, 1386>>, exp |-> -51] ,
       [neg |-> FALSE, man |-> <<14831, 15336, 9263, 1419>>, exp |-> -51] ,
       [neg |-> FALSE, man |-> <<16250, 2025, 9916, 1450>>, exp |-> -51] >>

(* the entries of Log1p, in order: 
   log1p(1) = 0.6931471805599453 = 0x1.62e42fefa39efp-1
   log1p(2) = 1.0986122886681096 = 0x1.193ea7aad030ap+0
   log1p(3) = 1.3862943611198906 = 0x1.62e42fefa39efp+0
   log1p(4) = 1.6094379124341003 = 0x1.9c041f7ed8d33p+0
   log1p(5) = 1.791759469228055 = 0x1.cab0bfa2a2002p+0
   log1p(6) = 1.9459101490553132 = 0x1.f2272ae325a57p+0
   log1p(7) = 2.0794415416798357 = 0x1.0a2b23f3bab73p+1
   log1p(8) = 2.1972245773362196 = 0x1.193ea7aad030bp+1
   log1p(9) = 2.302585092994046 = 0x1.26bb1bbb55516p+1
   log1p(10) = 2.3978952727983707 = 0x1.32ee3b77f374cp+1
   log1p(11) = 2.4849066497880004 = 0x1.3e116bcd39e7dp+1
   log1p(12) = 2.5649493574615367 = 0x1.485042b318c51p+1
   log1p(13) = 2.639057329615259 = 0x1.51cca16d7bba8p+1
   log1p(14) = 2.70805020110221 = 0x1.5aa16394d481fp+1
   log1p(15) = 2.772588722239781 = 0x1.62e42fefa39efp+1
   log1p(16) = 2.833213344056216 = 0x1.6aa6bc1fa7f7ap+1 *)

(* mutant of NoCrossingsPriority: a vehicle without history is scored with *)
(* the neutral consistency term instead of 0                               *)
NoCrossingsPriorityNeutral(vs, v) == FMul(ConsistencyWeight, NeutralConsistency)

(* return 0 *)
NoCrossingsPriority(vs, v) == FZero

(* lines 58-83, each operation in the order of the source *)
calculate_priority(vs, v, now) ==
    IF v \notin DOMAIN vs \/ vs[v].crossings = <<>> THEN NoCrossingsPriority(vs, v)
    ELSE LET hist == vs[v]
             n    == Len(hist.crossings)
             freq == Log1p[n]
             last_time == hist.crossings[n][1]
             recency ==
                 FDiv(One, FAdd(One, FDiv(FromInt(now - last_time), FromInt(HourSeconds))))
             ps   == hist.patterns.list
             consistency ==
                 IF Truthy(hist.patterns)
                 THEN FDiv(FSetMax({ps[i].consistency : i \in DOMAIN ps}),
                           FromInt(1 + SetMin({Abs(now - ps[i].peak_start) : i \in DOMAIN ps})))
                 ELSE NeutralConsistency
         IN  FAdd(FAdd(FMul(FrequencyWeight, freq), FMul(RecencyWeight, recency)),
                  FMul(ConsistencyWeight, consistency))

----------------------------------------------------------------------------
(* The direction weight aggregator *)

(* mutant of store_after_query: the lookup creates an empty record for     *)
(* every detected vehicle it does not know, as a defaultdict would         *)
store_after_query_default(vs, det) ==
    [w \in DOMAIN vs \cup {det[i] : i \in DOMAIN det} |->
        IF w \in DOMAIN vs THEN vs[w] ELSE [crossings |-> <<>>, patterns |-> None]]

(* self.vehicles after get_direction_weight: `veh_id not in self.vehicles`  *)
(* and self.vehicles.get(veh_id, {}) read the dict and insert nothing       *)
store_after_query(vs, det) == vs

(* mutant of AnyPattern: a pattern list that was computed counts, empty or not *)
AnyPatternComputed(vs, det) ==
    \E i \in DOMAIN det : det[i] \in DOMAIN vs /\ vs[det[i]].patterns.computed

AnyPattern(vs, det) ==
    \E i \in DOMAIN det : det[i] \in DOMAIN vs /\ Truthy(vs[det[i]].patterns)

(* if any(...): total_weight *= (1 + self.time_boost_factor) *)
Boost(any, w) == IF any THEN FMul(w, FAdd(One, TimeBoostFactor)) ELSE w

(* lines 85-107: the priorities of the vehicles of direction d added one   *)
(* after another in detection order, then the density term, then the boost *)
get_direction_weight(vs, sc, now, d) ==
    LET det  == detect_vehicles(sc)
        Same(v) == get_approach_direction(sc, v) = d
        mine == SelectSeq(det, Same)
        prio == SumLeft(FZero, [i \in DOMAIN mine |-> calculate_priority(vs, mine[i], now)], 1)
        total_weight == FAdd(prio, FMul(DensityWeight, FromInt(Len(mine))))
    IN  Boost(AnyPattern(vs, det), total_weight)

----------------------------------------------------------------------------
(* The phase controller *)

(* mutant of Duration: the cycle is split in proportion to the weights,   *)
(* with neither the 15 s floor nor the half-base offset                    *)
DurationShare(w, total) ==
    FMin(FromInt(MaxDuration), FMul(FromInt(2 * BaseDuration), FDiv(w, total)))

(* mutant of Duration: the base duration is not halved before the share is *)
(* added, 30 * (1 + w/total)                                               *)
DurationFullBase(w, total) ==
    FMax(FromInt(MinDuration),
         FMin(FromInt(MaxDuration), FMul(FromInt(BaseDuration), FAdd(One, FDiv(w, total)))))

(* phase_durations[d] = max(15, min(60, 30 * (0.5 + weights[d] / total_weight))) *)
Duration(w, total) ==
    FMax(FromInt(MinDuration),
         FMin(FromInt(MaxDuration),
              FMul(FromInt(BaseDuration), FAdd(HalfShare, FDiv(w, total)))))

(* mutant of Highest: the direction with the smaller weight *)
HighestMin(wNS, wEW) == IF FLess(wEW, wNS) THEN "EW" ELSE "NS"

(* max(weights, key=weights.get): the first of NS, EW that has the largest weight *)
Highest(wNS, wEW) == IF FLess(wNS, wEW) THEN "EW" ELSE "NS"

NoCmd == <<>>
Cmd(kind, veh, dir, arg) == [kind |-> kind, veh |-> veh, dir |-> dir, arg |-> arg]

(* preemptForEmergency(signalId, vehicleId) *)
handle_emergency(v) == Cmd("preempt", v, "none", FZero)

(* mutants of FirstEmergency: only the head of the list is tested; the last *)
(* emergency vehicle is taken instead of the first                         *)
FirstEmergencyHead(sc) ==
    LET det == detect_vehicles(sc)
    IN  IF det # <<>> /\ sc.type[det[1]] = "emergency" THEN 1 ELSE 0

FirstEmergencyLast(sc) ==
    LET det == detect_vehicles(sc)
        idx == {i \in DOMAIN det : sc.type[det[i]] = "emergency"}
    IN  IF idx = {} THEN 0 ELSE SetMax(idx)

(* the first emergency vehicle of the detection list, 0 if none *)
FirstEmergency(sc) ==
    LET det == detect_vehicles(sc)
        idx == {i \in DOMAIN det : sc.type[det[i]] = "emergency"}
    IN  IF idx = {} THEN 0 ELSE SetMin(idx)

(* mutant of HasDemand: the guard lets a zero total through *)
HasDemandGe(total) == ~FLess(total, FZero)

(* if total_weight > 0 *)
HasDemand(total) == FLess(FZero, total)

(* if remaining < phase_durations[current_direction] *)
ExtendTest(rem, d) == FLess(rem, d)

(* the commands control_logic issues and what it computed on the way *)

(* lines 143-147: the current green phase, with rem seconds left and the   *)
(* duration d computed for its direction, is extended or left alone        *)
Extend(cur, rem, d) ==
    IF ExtendTest(rem, d) THEN <<Cmd("extend", "none", cur, FSub(d, rem))>> ELSE NoCmd

(* lines 120-151: the total, the durations and the extend / switch choice, *)
(* from the two weights                                                    *)
PhaseDecision(wNS, wEW, p, rem) ==
    LET total_weight == FAdd(wNS, wEW)
        cur == get_current_direction(p)
    IN  [cmds |-> IF HasDemand(total_weight)
                  THEN IF cur \in {"NS", "EW"}
                       THEN Extend(cur, rem,
                                   Duration(IF cur = "NS" THEN wNS ELSE wEW, total_weight))
                       ELSE <<Cmd("switch", "none", Highest(wNS, wEW), FZero)>>
                  ELSE NoCmd,
         weighed |-> TRUE, divided |-> HasDemand(total_weight), wNS |-> wNS, wEW |-> wEW]

(* lines 117-151: the weights of the two directions and the decision on them *)
NormalDecision(vs, sc, now, p, rem) ==
    PhaseDecision(get_direction_weight(vs, sc, now, "NS"),
                  get_direction_weight(vs, sc, now, "EW"), p, rem)

(* mutant of Decide: the return after handle_emergency is missing, so the  *)
(* normal decision follows the preemption in the same call                 *)
DecideNoReturn(vs, sc, now, p, rem) ==
    LET det == detect_vehicles(sc)
        e   == FirstEmergency(sc)
        nd  == NormalDecision(vs, sc, now, p, rem)
    IN  IF e # 0
        THEN [nd EXCEPT !.cmds = <<handle_emergency(det[e])>> \o nd.cmds]
        ELSE nd

Decide(vs, sc, now, p, rem) ==
    LET det == detect_vehicles(sc)
        e   == FirstEmergency(sc)
    IN  IF e # 0
        THEN [cmds |-> <<handle_emergency(det[e])>>,
              weighed |-> FALSE, divided |-> FALSE, wNS |-> FZero, wEW |-> FZero]
        ELSE NormalDecision(vs, sc, now, p, rem)

----------------------------------------------------------------------------
(* The actuator *)

(* traci.trafficlight.setPhaseDuration(tls_id, x): the current phase now    *)
(* ends x seconds from now                                                  *)
setPhaseDuration(rem, x) == x

(* switchToPhaseForDirection: the signal shows the green phase of d *)
set_phase_for_direction(p, d) == IF d = "NS" THEN 0 ELSE 2

PhaseAfter(p, cmds) ==
    IF cmds # <<>> /\ cmds[1].kind = "switch"
    THEN set_phase_for_direction(p, cmds[1].dir) ELSE p

RemainingAfter(rem, cmds) ==
    IF cmds # <<>> /\ cmds[1].kind = "extend"
    THEN setPhaseDuration(rem, cmds[1].arg) ELSE rem

----------------------------------------------------------------------------
(* State machine *)

Obs(op, veh, detected, dec, failed, phase0, rem0) ==
    [op |-> op, veh |-> veh, detected |-> detected, cmds |-> dec.cmds,
     weighed |-> dec.weighed, divided |-> dec.divided,
     wNS |-> dec.wNS, wEW |-> dec.wEW, failed |-> failed, phase0 |-> phase0, rem0 |-> rem0]

NoDecision ==
    [cmds |-> NoCmd, weighed |-> FALSE, divided |-> FALSE, wNS |-> FZero, wEW |-> FZero]

EmptyScene ==
    Scene(<< <<>>, <<>> >>, Both(10, 10), Both("car", "car"), Both("NS", "EW"))

Init ==
    /\ time \in {BeginTime - 1, BeginTime}
    /\ ticks = 0
    /\ calls = 0
    /\ scene = EmptyScene
    /\ phase = 0
    /\ remaining = FromInt(10)
    /\ vehicles = <<>>
    /\ pc = "loop"
    /\ obs = Obs("init", "none", FALSE, NoDecision, FALSE, 0, FromInt(10))

(* while getMinExpectedNumber() > 0: simulationStep(); current_time = getTime() *)
SimulationStep ==
    /\ pc = "loop"
    /\ ticks < MaxTicks
    /\ time' = time + 1
    /\ ticks' = ticks + 1
    /\ scene' \in Scenes
    /\ \E sg \in Signals : phase' = sg[1] /\ remaining' = FromInt(sg[2])
    /\ pc' = "control"
    /\ obs' = Obs("step", "none", FALSE, NoDecision, FALSE, phase', remaining')
    /\ UNCHANGED <<calls, vehicles>>

(* getMinExpectedNumber() = 0: the loop ends and traci.close() runs *)
LoopExit ==
    /\ pc = "loop"
    /\ pc' = "closed"
    /\ obs' = Obs("exit", "none", FALSE, NoDecision, FALSE, phase, remaining)
    /\ UNCHANGED <<time, ticks, calls, scene, phase, remaining, vehicles>>

(* update_vehicle_history(v): a caller records a crossing of vehicle v. The *)
(* method reads the approach direction and the clock, nothing else, so the  *)
(* call is possible for any vehicle at any point while traci is open.       *)
UpdateVehicleHistory(v) ==
    /\ pc # "closed"
    /\ calls < MaxCalls
    /\ calls' = calls + 1
    /\ vehicles' = update_vehicle_history(vehicles, v, time, get_approach_direction(scene, v))
    /\ obs' = Obs("update", v, ShouldDetect(Len(vehicles'[v].crossings)),
                  NoDecision, FALSE, phase, remaining)
    /\ UNCHANGED <<time, ticks, scene, phase, remaining, pc>>

(* tls.control_logic() returns; then the loop tests current_time % 5 *)
ControlLogic ==
    /\ pc = "control"
    /\ obs' = Obs("control", "none", FALSE,
                  Decide(vehicles, scene, time, phase, remaining), FALSE, phase, remaining)
    /\ phase' = PhaseAfter(phase, obs'.cmds)
    /\ remaining' = RemainingAfter(remaining, obs'.cmds)
    /\ vehicles' = IF obs'.weighed
                   THEN store_after_query(vehicles, detect_vehicles(scene))
                   ELSE vehicles
    /\ pc' = IF time % VizPeriod = 0 THEN "viz" ELSE "loop"
    /\ UNCHANGED <<time, ticks, calls, scene>>

(* a traci read inside control_logic raises: run() catches it outside the   *)
(* while loop, closes traci and returns                                     *)
ControlLogicFails ==
    /\ pc = "control"
    /\ pc' = "closed"
    /\ obs' = Obs("control", "none", FALSE, NoDecision, TRUE, phase, remaining)
    /\ UNCHANGED <<time, ticks, calls, scene, phase, remaining, vehicles>>

(* a weight query of the debug print raises (a traci read in               *)
(* detect_vehicles): run() catches it outside the while loop, closes traci *)
(* and returns. A failure inside update_visualization is caught there and  *)
(* the loop goes on, as in Visualization.                                  *)
VisualizationFails ==
    /\ pc = "viz"
    /\ pc' = "closed"
    /\ obs' = Obs("viz", "none", FALSE, NoDecision, TRUE, phase, remaining)
    /\ UNCHANGED <<time, ticks, calls, scene, phase, remaining, vehicles>>

(* update_visualization(tls) and the debug print: four weight queries *)
Visualization ==
    /\ pc = "viz"
    /\ pc' = "loop"
    /\ obs' = Obs("viz", "none", FALSE,
                  [cmds |-> NoCmd, weighed |-> TRUE, divided |-> FALSE,
                   wNS |-> get_direction_weight(vehicles, scene, time, "NS"),
                   wEW |-> get_direction_weight(vehicles, scene, time, "EW")],
                  FALSE, phase, remaining)
    /\ vehicles' = store_after_query(vehicles, detect_vehicles(scene))
    /\ UNCHANGED <<time, ticks, calls, scene, phase, remaining>>

Next ==
    \/ SimulationStep
    \/ LoopExit
    \/ \E v \in Vehs : UpdateVehicleHistory(v)
    \/ ControlLogic
    \/ ControlLogicFails
    \/ Visualization
    \/ VisualizationFails

Spec == Init /\ [][Next]_vars

----------------------------------------------------------------------------
(* The history store driven on its own: a caller records the crossings of   *)
(* one vehicle as the clock advances, two full batches at most               *)

MaxStamp == 4

StampStep == Eps
Stamps == {k * StampStep : k \in 0..MaxStamp}

DetectInit ==
    /\ time = 0
    /\ ticks = 0
    /\ calls = 0
    /\ scene = EmptyScene
    /\ phase = 0
    /\ remaining = FromInt(10)
    /\ vehicles = <<>>
    /\ pc = "history"
    /\ obs = Obs("init", "none", FALSE, NoDecision, FALSE, 0, FromInt(10))

(* the clock reaches t and update_vehicle_history(v1, NS) is called *)
RecordCrossing(t) ==
    /\ t >= time
    /\ calls < 2 * BatchSize
    /\ time' = t
    /\ calls' = calls + 1
    /\ vehicles' = update_vehicle_history(vehicles, "v1", t,
                                           get_approach_direction(scene, "v1"))
    /\ obs' = Obs("update", "v1", ShouldDetect(Len(vehicles'["v1"].crossings)),
                  NoDecision, FALSE, phase, remaining)
    /\ UNCHANGED <<ticks, scene, phase, remaining, pc>>

DetectNext == \E t \in Stamps : RecordCrossing(t)

SpecDetect == DetectInit /\ [][DetectNext]_vars

----------------------------------------------------------------------------
(* The engine driven on its own: crossings of both vehicles recorded as the *)
(* clock advances, then the direction weights queried over a scene. A query *)
(* leaves the store as it is, so the run is followed up to its first query. *)

MaxEvents == 6

(* the clock times of the crossings: some exactly eps apart, some too far  *)
(* apart to be neighbours                                                  *)
Moments == {0, StampStep, 2 * StampStep, 4 * StampStep}

(* update_vehicle_history(v) at clock time t *)
RecordVehicle(v, t) ==
    /\ pc = "history"
    /\ t >= time
    /\ calls < MaxEvents
    /\ time' = t
    /\ calls' = calls + 1
    /\ vehicles' = update_vehicle_history(vehicles, v, t, get_approach_direction(scene, v))
    /\ obs' = Obs("update", v, ShouldDetect(Len(vehicles'[v].crossings)),
                  NoDecision, FALSE, phase, remaining)
    /\ UNCHANGED <<ticks, scene, phase, remaining, pc>>

(* get_direction_weight('NS') and get_direction_weight('EW') over scene sc *)
QueryWeights(sc) ==
    /\ pc = "history"
    /\ pc' = "queried"
    /\ scene' = sc
    /\ obs' = Obs("query", "none", FALSE,
                  [cmds |-> NoCmd, weighed |-> TRUE, divided |-> FALSE,
                   wNS |-> get_direction_weight(vehicles, sc, time, "NS"),
                   wEW |-> get_direction_weight(vehicles, sc, time, "EW")],
                  FALSE, phase, remaining)
    /\ vehicles' = store_after_query(vehicles, detect_vehicles(sc))
    /\ UNCHANGED <<time, ticks, calls, phase, remaining>>

(* the scenes over which control_logic reaches the weights: those with no  *)
(* emergency vehicle in range                                              *)
QueryScenes == {sc \in Scenes : FirstEmergency(sc) = 0}

HistoryNext ==
    \/ \E v \in Vehs : \E t \in Moments : RecordVehicle(v, t)
    \/ \E sc \in QueryScenes : QueryWeights(sc)

SpecHistory == DetectInit /\ [][HistoryNext]_vars

----------------------------------------------------------------------------
(* Vocabulary of the properties, stated on the scene and the state alone *)

InRange(sc) == {v \in present(sc) : sc.dist[v] < 50}
EmergenciesInRange(sc) == {v \in InRange(sc) : sc.type[v] = "emergency"}

(* position of a vehicle in detection order: lane index, then place on the lane *)
LaneOf(sc, v) == CHOOSE i \in DOMAIN sc.lanes : \E j \in DOMAIN sc.lanes[i] : sc.lanes[i][j] = v
PlaceOf(sc, v) == CHOOSE j \in DOMAIN sc.lanes[LaneOf(sc, v)] : sc.lanes[LaneOf(sc, v)][j] = v
Precedes(sc, v, w) ==
    \/ LaneOf(sc, v) < LaneOf(sc, w)
    \/ LaneOf(sc, v) = LaneOf(sc, w) /\ PlaceOf(sc, v) < PlaceOf(sc, w)

(* the last operation was a control_logic call that returned *)
Controlled == obs.op = "control" /\ ~obs.failed
Kinds(cmds) == {cmds[i].kind : i \in DOMAIN cmds}

WeightNow(d) == get_direction_weight(vehicles, scene, time, d)
TotalNow == FAdd(WeightNow("NS"), WeightNow("EW"))
CurrentThen == IF obs.phase0 = 0 THEN "NS" ELSE IF obs.phase0 = 2 THEN "EW" ELSE "none"

(* the floats 0.5, 0.3 and 1.5 *)
Half == [neg |-> FALSE, man |-> <<0, 0, 0, 1024>>, exp |-> -53]
ThreeTenths == [neg |-> FALSE, man |-> <<13107, 3276, 13107, 1228>>, exp |-> -54]
OneAndHalf == [neg |-> FALSE, man |-> <<0, 0, 0, 1536>>, exp |-> -52]

(* duration[d], from the weights the call computed: 30 * (0.5 + share)     *)
(* kept between 15 and 60                                                  *)
DurationOf(d) ==
    LET w   == IF d = "NS" THEN obs.wNS ELSE obs.wEW
        T   == FAdd(obs.wNS, obs.wEW)
        raw == FMul(FromInt(30), FAdd(Half, FDiv(w, T)))
    IN  IF FLess(raw, FromInt(15)) THEN FromInt(15)
        ELSE IF FLess(FromInt(60), raw) THEN FromInt(60) ELSE raw

(* x = d - r, as the float subtraction gives it *)
IsDifference(x, d, r) == x = FSub(d, r)

(* x <= y *)
FLeq(x, y) == x = y \/ FLess(x, y)

IsPrefix(s, t) == Len(s) <= Len(t) /\ \A i \in DOMAIN s : s[i] = t[i]

CrossingsOf(vs, v) == IF v \in DOMAIN vs THEN vs[v].crossings ELSE <<>>
PatternsOf(vs, v) == IF v \in DOMAIN vs THEN vs[v].patterns ELSE None

----------------------------------------------------------------------------
(* C1: in a tick with an emergency vehicle in range, control_logic issues   *)
(* a preemption for an emergency vehicle in range, computes no direction    *)
(* weight and issues neither an extension nor a switch, whatever the        *)
(* backlog in the two directions.                                           *)
C1_EmergencyShortCircuits ==
    (Controlled /\ EmergenciesInRange(scene) # {}) =>
        /\ obs.cmds # <<>>
        /\ Kinds(obs.cmds) = {"preempt"}
        /\ obs.cmds[1].veh \in EmergenciesInRange(scene)
        /\ ~obs.weighed
        /\ ~obs.divided
        /\ phase = obs.phase0
        /\ remaining = obs.rem0

(* an emergency vehicle in NS with a vehicle waiting in EW: preempted *)
C1_Witness ==
    /\ Controlled
    /\ \E e \in EmergenciesInRange(scene) : \E c \in InRange(scene) \ EmergenciesInRange(scene) :
          scene.dir[e] = "NS" /\ scene.dir[c] = "EW"
    /\ Kinds(obs.cmds) = {"preempt"}

(* C2 (as claimed): with no emergency and a positive total, a green phase   *)
(* whose remaining time r is below duration[current] = d gets exactly one   *)
(* command, an extension by d - r, and after the command the phase has no   *)
(* less time left than it had before.                                       *)
C2_ExtendNeverShortens ==
    (Controlled /\ EmergenciesInRange(scene) = {} /\ obs.divided
       /\ CurrentThen \in {"NS", "EW"} /\ FLess(obs.rem0, DurationOf(CurrentThen))) =>
        /\ Len(obs.cmds) = 1
        /\ obs.cmds[1].kind = "extend"
        /\ IsDifference(obs.cmds[1].arg, DurationOf(CurrentThen), obs.rem0)
        /\ ~FLess(remaining, obs.rem0)

(* the part of C2 the code does satisfy: the command is setPhaseDuration(d - r) *)
C2_CommandIsDifference ==
    (Controlled /\ EmergenciesInRange(scene) = {} /\ obs.divided
       /\ CurrentThen \in {"NS", "EW"} /\ FLess(obs.rem0, DurationOf(CurrentThen))) =>
        /\ Len(obs.cmds) = 1
        /\ obs.cmds[1].kind = "extend"
        /\ IsDifference(obs.cmds[1].arg, DurationOf(CurrentThen), obs.rem0)

(* C3 (as claimed): with no emergency and a positive total, whenever the    *)
(* extension condition does not apply the engine switches to the direction  *)
(* with the higher weight.                                                  *)
C3_SwitchWheneverNotExtending ==
    (Controlled /\ EmergenciesInRange(scene) = {} /\ obs.divided
       /\ ~(CurrentThen \in {"NS", "EW"} /\ FLess(obs.rem0, DurationOf(CurrentThen)))) =>
        /\ Len(obs.cmds) = 1
        /\ obs.cmds[1].kind = "switch"
        /\ obs.cmds[1].dir = (IF FLess(obs.wNS, obs.wEW) THEN "EW" ELSE "NS")

(* C3 (amended): with no emergency and a positive total, in a transition    *)
(* phase the engine switches to the direction with the higher weight (NS on *)
(* a tie); in a green phase whose remaining time already reaches            *)
(* duration[current] it issues no command at all.                           *)
C3_SwitchOnlyInTransition ==
    (Controlled /\ EmergenciesInRange(scene) = {} /\ obs.divided
       /\ ~(CurrentThen \in {"NS", "EW"} /\ FLess(obs.rem0, DurationOf(CurrentThen)))) =>
        IF CurrentThen = "none"
        THEN /\ Len(obs.cmds) = 1
             /\ obs.cmds[1].kind = "switch"
             /\ obs.cmds[1].dir = (IF FLess(obs.wNS, obs.wEW) THEN "EW" ELSE "NS")
             /\ get_current_direction(phase) = obs.cmds[1].dir
        ELSE /\ obs.cmds = <<>>
             /\ phase = obs.phase0
             /\ remaining = obs.rem0

(* a transition phase with EW the heavier direction: switched to EW *)
C3_Witness ==
    /\ Controlled
    /\ CurrentThen = "none"
    /\ FLess(obs.wNS, obs.wEW)
    /\ FLess(FZero, obs.wNS)
    /\ Kinds(obs.cmds) = {"switch"}
    /\ obs.cmds[1].dir = "EW"

(* C4 (as claimed): when control_logic has run, every vehicle in range has  *)
(* a crossing (current time, approach direction) at the end of its history. *)
C4_TickRecordsCrossings ==
    Controlled =>
        \A v \in InRange(scene) :
            /\ v \in DOMAIN vehicles
            /\ vehicles[v].crossings # <<>>
            /\ vehicles[v].crossings[Len(vehicles[v].crossings)] = <<time, scene.dir[v]>>

(* C5: with no emergency and a zero total weight, control_logic issues no   *)
(* command, does not divide by the total, and leaves the signal as it was.  *)
C5_ZeroTotalNoDecision ==
    (Controlled /\ EmergenciesInRange(scene) = {} /\ TotalNow = FZero) =>
        /\ obs.cmds = <<>>
        /\ ~obs.divided
        /\ phase = obs.phase0
        /\ remaining = obs.rem0

(* a vehicle is on a controlled lane but out of range, in a transition phase *)
C5_Witness ==
    /\ Controlled
    /\ present(scene) # {}
    /\ InRange(scene) = {}
    /\ obs.weighed
    /\ CurrentThen = "none"
    /\ obs.cmds = <<>>

(* C6 (as claimed): a failed read in a tick gives no decision and the       *)
(* driving loop goes on to the next tick.                                   *)
C6_FailedTickIsSkipped ==
    obs.failed => (obs.cmds = <<>> /\ pc \in {"loop", "viz"})

(* the part of C6 the code does satisfy: no decision, histories untouched *)
C6_FailedTickChangesNothing ==
    [][obs'.failed => (obs'.cmds = <<>> /\ vehicles' = vehicles
                         /\ phase' = phase /\ remaining' = remaining)]_vars

(* C7: update_vehicle_history creates the record if absent and appends      *)
(* exactly one crossing (time, direction); no step of the system removes a  *)
(* record or changes the crossings already recorded.                        *)
C7_AppendOnly ==
    [][/\ \A v \in DOMAIN vehicles :
             /\ v \in DOMAIN vehicles'
             /\ IsPrefix(vehicles[v].crossings, vehicles'[v].crossings)
       /\ obs'.op = "update" =>
             /\ obs'.veh \in DOMAIN vehicles'
             /\ vehicles'[obs'.veh].crossings
                  = Append(CrossingsOf(vehicles, obs'.veh), <<time, scene.dir[obs'.veh]>>)
             /\ DOMAIN vehicles' = DOMAIN vehicles \cup {obs'.veh}]_vars

(* two calls in one tick left two crossings with the same timestamp *)
C7_Witness ==
    /\ obs.op = "update"
    /\ LET cr == vehicles[obs.veh].crossings
       IN  Len(cr) >= 2 /\ cr[Len(cr)] = <<time, scene.dir[obs.veh]>>
                        /\ cr[Len(cr) - 1] = <<time, scene.dir[obs.veh]>>

(* C8: a call of update_vehicle_history replaces the vehicle's patterns by  *)
(* a fresh detection exactly when its crossing count after the append is a  *)
(* positive multiple of 5; otherwise they stay as they were, and the other  *)
(* vehicles' records are never touched.                                     *)
C8_DetectEveryFifth ==
    [][obs'.op = "update" =>
         LET v == obs'.veh
             n == Len(vehicles'[v].crossings)
         IN  /\ obs'.detected <=> (n > 0 /\ n % 5 = 0)
             /\ IF n > 0 /\ n % 5 = 0
                THEN vehicles'[v].patterns
                       = [computed |-> TRUE, list |-> detect_patterns(vehicles'[v].crossings)]
                ELSE vehicles'[v].patterns = PatternsOf(vehicles, v)
             /\ \A w \in DOMAIN vehicles \ {v} : vehicles'[w] = vehicles[w]]_vars

(* a sixth crossing was recorded and the patterns are still those of the    *)
(* first five, not those a detection over the six would give                *)
C8_Witness ==
    /\ obs.op = "update"
    /\ ~obs.detected
    /\ Len(vehicles[obs.veh].crossings) = 6
    /\ vehicles[obs.veh].patterns.computed
    /\ vehicles[obs.veh].patterns.list
          = detect_patterns(SubSeq(vehicles[obs.veh].crossings, 1, 5))
    /\ vehicles[obs.veh].patterns.list # detect_patterns(vehicles[obs.veh].crossings)

(* C9: whenever durations are computed (total > 0), the duration of each    *)
(* direction, as Decide computes it, lies between 15 and 60 seconds.        *)
C9_DurationBounded ==
    (Controlled /\ obs.divided) =>
        LET T == FAdd(obs.wNS, obs.wEW)
        IN  /\ FLess(FZero, T)
            /\ FLeq(FromInt(15), Duration(obs.wNS, T))
            /\ FLeq(Duration(obs.wNS, T), FromInt(60))
            /\ FLeq(FromInt(15), Duration(obs.wEW, T))
            /\ FLeq(Duration(obs.wEW, T), FromInt(60))

(* all the weight in one direction: the other direction sits on the floor *)
C9_Witness ==
    /\ Controlled
    /\ obs.divided
    /\ obs.wEW = FZero
    /\ FLess(FZero, obs.wNS)
    /\ Duration(obs.wEW, FAdd(obs.wNS, obs.wEW)) = FromInt(15)

(* C10: with several emergency vehicles in range, control_logic issues      *)
(* exactly one command, the preemption for the one that comes first in      *)
(* detection order (lanes in order, vehicles of a lane in order).           *)
C10_FirstEmergencyOnly ==
    (Controlled /\ Cardinality(EmergenciesInRange(scene)) >= 2) =>
        /\ Len(obs.cmds) = 1
        /\ obs.cmds[1].kind = "preempt"
        /\ obs.cmds[1].veh \in EmergenciesInRange(scene)
        /\ \A w \in EmergenciesInRange(scene) \ {obs.cmds[1].veh} :
               Precedes(scene, obs.cmds[1].veh, w)

(* two emergency vehicles on the same lane, the one ahead preempted *)
C10_Witness ==
    /\ Controlled
    /\ Cardinality(EmergenciesInRange(scene)) = 2
    /\ \A v \in EmergenciesInRange(scene) : LaneOf(scene, v) = 2
    /\ Len(obs.cmds) = 1
    /\ obs.cmds[1].veh = scene.lanes[2][1]

(* C15: calculate_priority returns 0 for every vehicle id that has no       *)
(* recorded crossing, ids the engine has never seen included, whatever the  *)
(* time of the query and whatever the rest of the store holds.              *)
C15_NoHistoryScoresZero ==
    \A v \in Vehs \cup {"unseen"} : \A now \in {0, time, time + 3600} :
        CrossingsOf(vehicles, v) = <<>> => calculate_priority(vehicles, v, now) = FZero

(* a weight was computed over an in-range vehicle the engine has never seen *)
(* while another vehicle has a history and a positive priority              *)
C15_Witness ==
    /\ Controlled
    /\ obs.weighed
    /\ \E v \in InRange(scene) : v \notin DOMAIN vehicles
    /\ \E w \in DOMAIN vehicles : FLess(FZero, calculate_priority(vehicles, w, time))

(* C16: one control_logic call issues at most one actuator command: a       *)
(* preemption, an extension or a switch, never two of them.                 *)
C16_AtMostOneCommand ==
    obs.op = "control" =>
        /\ Len(obs.cmds) <= 1
        /\ Cardinality(Kinds(obs.cmds)) <= 1
        /\ Kinds(obs.cmds) \subseteq {"preempt", "extend", "switch"}

(* an emergency vehicle in range during a transition phase with demand, so  *)
(* that the normal path would have switched: the preemption is the only     *)
(* command                                                                  *)
C16_Witness ==
    /\ Controlled
    /\ EmergenciesInRange(scene) # {}
    /\ InRange(scene) # EmergenciesInRange(scene)
    /\ obs.phase0 = 1
    /\ Kinds(obs.cmds) = {"preempt"}

(* C17: a weight query (get_direction_weight, and calculate_priority under  *)
(* it) leaves the store as it found it: same tracked vehicles, same         *)
(* crossings, same patterns. Only recording a crossing changes the store.   *)
C17_QueriesReadOnly ==
    [][(obs'.op = "viz" \/ (obs'.op = "control" /\ obs'.weighed)) =>
            vehicles' = vehicles]_vars

(* the visualisation queried both weights over a store that tracks some     *)
(* vehicle while an in-range vehicle is not tracked                         *)
C17_Witness ==
    /\ obs.op = "viz"
    /\ DOMAIN vehicles # {}
    /\ \E v \in InRange(scene) : v \notin DOMAIN vehicles

(* C18 (as claimed): whenever durations are computed (total > 0) the two    *)
(* durations add up to 60 seconds, each lies between 15 and 45 seconds, so *)
(* the ceiling of 60 is never reached, and a direction holding all the     *)
(* weight gets 45 while the other gets 15.                                 *)
C18_DurationsShareSixty ==
    (Controlled /\ obs.divided) =>
        LET T   == FAdd(obs.wNS, obs.wEW)
            dNS == Duration(obs.wNS, T)
            dEW == Duration(obs.wEW, T)
        IN  /\ FLess(FZero, T)
            /\ FAdd(dNS, dEW) = FromInt(60)
            /\ FLeq(FromInt(15), dNS) /\ FLeq(dNS, FromInt(45))
            /\ FLeq(FromInt(15), dEW) /\ FLeq(dEW, FromInt(45))
            /\ obs.wEW = FZero => (dNS = FromInt(45) /\ dEW = FromInt(15))
            /\ obs.wNS = FZero => (dEW = FromInt(45) /\ dNS = FromInt(15))

(* the distance of a sum of two durations from 60 that rounding can leave: *)
(* 1e-12, 0x1.19799812dea11p-40                                            *)
SumTolerance == [neg |-> FALSE, man |-> <<10769, 1207, 14744, 1125>>, exp |-> -92]

(* C18 (amended): whenever durations are computed (total > 0) each         *)
(* duration lies between 15 and 45 seconds, so the ceiling of 60 is never  *)
(* reached, a direction holding all the weight gets exactly 45 while the   *)
(* other gets exactly 15, and the two durations add up to 60 seconds up to *)
(* the rounding of the float operations: the sum differs from 60 by less   *)
(* than 10^-12.                                                            *)
C18_DurationsShareSixtyRounded ==
    (Controlled /\ obs.divided) =>
        LET T   == FAdd(obs.wNS, obs.wEW)
            dNS == Duration(obs.wNS, T)
            dEW == Duration(obs.wEW, T)
            sum == FAdd(dNS, dEW)
        IN  /\ FLess(FZero, T)
            /\ FLess(FSub(FromInt(60), SumTolerance), sum)
            /\ FLess(sum, FAdd(FromInt(60), SumTolerance))
            /\ FLeq(FromInt(15), dNS) /\ FLeq(dNS, FromInt(45))
            /\ FLeq(FromInt(15), dEW) /\ FLeq(dEW, FromInt(45))
            /\ obs.wEW = FZero => (dNS = FromInt(45) /\ dEW = FromInt(15))
            /\ obs.wNS = FZero => (dEW = FromInt(45) /\ dNS = FromInt(15))

(* both directions carry weight, unequal, both durations are strictly      *)
(* inside the interval and their sum is not 60                             *)
C18_Witness ==
    /\ Controlled
    /\ obs.divided
    /\ FLess(FZero, obs.wNS) /\ FLess(obs.wNS, obs.wEW)
    /\ FLess(FromInt(15), Duration(obs.wNS, FAdd(obs.wNS, obs.wEW)))
    /\ FLess(Duration(obs.wEW, FAdd(obs.wNS, obs.wEW)), FromInt(45))
    /\ FAdd(Duration(obs.wNS, FAdd(obs.wNS, obs.wEW)),
            Duration(obs.wEW, FAdd(obs.wNS, obs.wEW))) # FromInt(60)

(* the timestamps of v1, and the vocabulary of density clustering stated    *)
(* on them directly: near, dense, member of some cluster, noise             *)
StampsOf(vs) == [i \in DOMAIN CrossingsOf(vs, "v1") |-> CrossingsOf(vs, "v1")[i][1]]
Near(ts, i, j) == ts[i] - ts[j] <= 300 /\ ts[j] - ts[i] <= 300
Dense(ts, i) == Cardinality({j \in DOMAIN ts : Near(ts, i, j)}) >= 3
Member(ts, i) == \E j \in DOMAIN ts : Dense(ts, j) /\ Near(ts, i, j)
Within(ts, p) == {i \in DOMAIN ts : p.peak_start <= ts[i] /\ ts[i] <= p.peak_end}

(* C11: after a call that ran pattern detection every pattern spans a cluster of at least 3 *)
(* of the vehicle's timestamps, all of them members of a dense group within *)
(* radius 300 and the first and last of them its peak_start and peak_end;   *)
(* a timestamp that is noise lies in no pattern, every member lies in       *)
(* exactly one, and the pattern list is empty exactly when no timestamp has *)
(* 3 timestamps within 300 of it.                                           *)
C11_PatternsAreClusters ==
    (obs.op = "update" /\ obs.detected) =>
        LET ts == StampsOf(vehicles)
            ps == PatternsOf(vehicles, "v1").list
        IN  /\ PatternsOf(vehicles, "v1").computed
            /\ \A k \in DOMAIN ps :
                  /\ Cardinality(Within(ts, ps[k])) >= 3
                  /\ \A i \in Within(ts, ps[k]) : Member(ts, i)
                  /\ \E i \in DOMAIN ts : ts[i] = ps[k].peak_start
                  /\ \E i \in DOMAIN ts : ts[i] = ps[k].peak_end
            /\ \A i \in DOMAIN ts :
                  Cardinality({k \in DOMAIN ps : i \in Within(ts, ps[k])})
                      = IF Member(ts, i) THEN 1 ELSE 0
            /\ (ps = <<>>) <=> (\A i \in DOMAIN ts : ~Dense(ts, i))

(* two clusters and a noise timestamp between them in one history *)
C11_Witness ==
    /\ obs.op = "update" /\ obs.detected
    /\ Len(PatternsOf(vehicles, "v1").list) = 2
    /\ \E i \in DOMAIN StampsOf(vehicles) : ~Member(StampsOf(vehicles), i)

(* C12: a vehicle with crossings recorded at 0, 300, 600, 900 and 1200: the *)
(* first four calls compute no patterns, the fifth runs pattern detection   *)
(* and leaves exactly one pattern, from 0 to 1200, holding all five         *)
(* timestamps (timestamps exactly 300 apart are neighbours).                *)
C12_ScenarioA ==
    LET ts == StampsOf(vehicles)
        p  == PatternsOf(vehicles, "v1")
    IN  /\ ts = <<0, 300, 600, 900>> => p = None
        /\ ts = <<0, 300, 600, 900, 1200>> =>
              /\ obs.detected
              /\ p.computed
              /\ Len(p.list) = 1
              /\ p.list[1].peak_start = 0
              /\ p.list[1].peak_end = 1200
              /\ Within(ts, p.list[1]) = 1..5

(* the fifth crossing of the scenario has just been recorded *)
C12_Witness ==
    /\ obs.op = "update"
    /\ obs.detected
    /\ StampsOf(vehicles) = <<0, 300, 600, 900, 1200>>

(* the weight of direction d before the boost: the priorities of the       *)
(* vehicles of d in range, then 0.3 for each of them; and the test for a   *)
(* pattern among the vehicles in range                                     *)
Counted(d) == {v \in InRange(scene) : scene.dir[v] = d}
Share(v, d) == IF v \in Counted(d) THEN calculate_priority(vehicles, v, time) ELSE FZero
Unboosted(d) ==
    FAdd(FAdd(Share("v1", d), Share("v2", d)),
         FMul(ThreeTenths, FromInt(Cardinality(Counted(d)))))
HoldsPattern(v) ==
    PatternsOf(vehicles, v).computed /\ PatternsOf(vehicles, v).list # <<>>
Queried(d) == IF d = "NS" THEN obs.wNS ELSE obs.wEW

(* C13: a queried direction weight is 1.5 times the sum of priorities and   *)
(* density when some vehicle in range, of either direction, holds a         *)
(* non-empty pattern list, and is that sum itself otherwise: patterns never *)
(* computed, computed empty, or held by a vehicle out of range do not       *)
(* boost.                                                                   *)
C13_BoostIffPatternInRange ==
    obs.op = "query" =>
        \A d \in {"NS", "EW"} :
            IF \E v \in InRange(scene) : HoldsPattern(v)
            THEN Queried(d) = FMul(Unboosted(d), OneAndHalf)
            ELSE Queried(d) = Unboosted(d)

(* a pattern held by the EW vehicle boosts the weight of NS, whose only     *)
(* vehicle holds none                                                       *)
C13_Witness ==
    /\ obs.op = "query"
    /\ \E v \in InRange(scene) : \E w \in InRange(scene) :
          /\ scene.dir[v] = "NS" /\ ~HoldsPattern(v)
          /\ scene.dir[w] = "EW" /\ HoldsPattern(w)
    /\ FLess(FZero, Unboosted("NS"))
    /\ FLess(Unboosted("NS"), obs.wNS)

====
